---- MODULE Spec2Model ----
(***************************************************************************)
(* ChemE Car Motor Controller v1.1 (MotorController18.ino).                *)
(*                                                                         *)
(* The sketch is modelled as a state machine: setup() runs once (the       *)
(* calibration loop one iteration per step, the rest of setup() as one     *)
(* step), then loop() runs for ever, one whole cycle per step.  The body   *)
(* of every function is a pure operator on a record holding the sketch's   *)
(* globals, the hardware it drives (servos, digital outputs), the clock    *)
(* and what the last handler did (the actuation trace, the diagnostics).   *)
(***************************************************************************)
EXTENDS Integers, Sequences, FiniteSets, TLC

(* ---------------------------------------------------------------------- *)
(* Program constants                                                      *)
(* ---------------------------------------------------------------------- *)
dp_spect == 0
dp_batok == 1
dp_pemok == 2
dp_swton == 4
dp_regon == 8
dp_serv1 == 9
dp_serv2 == 10
dp_servs == 11

stir_speed == 9
setup_samples == 10
update_rate == 5000
debug_level == 3

HIGH == 1
LOW == 0

(* The digital outputs the sketch drives with digitalWrite. *)
OutPins == {dp_spect, dp_batok, dp_pemok, dp_regon}

(* ---------------------------------------------------------------------- *)
(* Bounds of the model                                                    *)
(* ---------------------------------------------------------------------- *)
(* analogRead returns 0..MaxAnalog (10-bit converter). *)
MaxAnalog == 1023
(* Calibration samples are 1000 or 1000 + SampleSpread. *)
SampleSpread == 2
(* millis() advances by 0 or TimeStep between two reads of one cycle. *)
TimeStep == 2500
(* loop() cycles are explored while the clock is at most MaxTime. *)
MaxTime == 8000

SampleValues == {1000, 1000 + SampleSpread}
LightValues == {750, 800, 1000}
VoltValues == {359, 360, 457, 458}
TimeSteps == {0, TimeStep}
Levels == {LOW, HIGH}

(* ---------------------------------------------------------------------- *)
(* State                                                                  *)
(* ---------------------------------------------------------------------- *)
VARIABLES
    pc,            \* "boot", "calibrate", "check" (setup) or "loop"
    base_light,    \* int base_light
    sum,           \* setup(): int sum
    i,             \* setup(): calibration loop index
    value,         \* setup(): int value, the last calibration sample
    vbat,          \* setup(): float vbat
    vpem,          \* setup(): float vpem
    run_car,       \* bool run_car
    color_change,  \* bool color_change
    run_time,      \* unsigned long run_time
    update_time,   \* unsigned long update_time
    light_value,   \* loop(): int light_value of the last cycle
    servo1,        \* Servo servo1: [attached, pin, value]
    servo2,        \* Servo servo2
    stirvo,        \* Servo stirvo
    pin,           \* level of every digital output
    now,           \* the value millis() returned last
    ops,           \* actuation operations of the last handler, in order
    log,           \* diagnostics the last handler printed, in order
    sw_reads,      \* values digitalRead(dp_swton) returned in the last cycle
    swton,         \* levels of the switch line at the two reads of the last cycle
    start,         \* VehicleState at the start of the last cycle
    stamp,         \* millis() captured by the last Idle->Running transition
    twin,          \* state of a second execution (pair specification only)
    hist           \* per-cycle record of the execution (example specification only)

prog == <<pc, base_light, sum, i, value, vbat, vpem, run_car, color_change, run_time, update_time,
          light_value, servo1, servo2, stirvo, pin, now, ops, log, sw_reads,
          swton, start, stamp>>
vars == <<prog, twin, hist>>

(* The state of one execution as a record: the operators below map records to records. *)
Self ==
    [pc |-> pc, base_light |-> base_light, sum |-> sum, i |-> i,
     value |-> value, vbat |-> vbat, vpem |-> vpem,
     run_car |-> run_car, color_change |-> color_change,
     run_time |-> run_time, update_time |-> update_time,
     light_value |-> light_value,
     servo1 |-> servo1, servo2 |-> servo2, stirvo |-> stirvo,
     pin |-> pin, now |-> now, ops |-> ops, log |-> log,
     sw_reads |-> sw_reads, swton |-> swton, start |-> start, stamp |-> stamp]

Assign(r) ==
    /\ pc' = r.pc
    /\ base_light' = r.base_light
    /\ sum' = r.sum
    /\ i' = r.i
    /\ value' = r.value
    /\ vbat' = r.vbat
    /\ vpem' = r.vpem
    /\ run_car' = r.run_car
    /\ color_change' = r.color_change
    /\ run_time' = r.run_time
    /\ update_time' = r.update_time
    /\ light_value' = r.light_value
    /\ servo1' = r.servo1
    /\ servo2' = r.servo2
    /\ stirvo' = r.stirvo
    /\ pin' = r.pin
    /\ now' = r.now
    /\ ops' = r.ops
    /\ log' = r.log
    /\ sw_reads' = r.sw_reads
    /\ swton' = r.swton
    /\ start' = r.start
    /\ stamp' = r.stamp

Assign_0(r) ==
    /\ pc = r.pc
    /\ base_light = r.base_light
    /\ sum = r.sum
    /\ i = r.i
    /\ value = r.value
    /\ vbat = r.vbat
    /\ vpem = r.vpem
    /\ run_car = r.run_car
    /\ color_change = r.color_change
    /\ run_time = r.run_time
    /\ update_time = r.update_time
    /\ light_value = r.light_value
    /\ servo1 = r.servo1
    /\ servo2 = r.servo2
    /\ stirvo = r.stirvo
    /\ pin = r.pin
    /\ now = r.now
    /\ ops = r.ops
    /\ log = r.log
    /\ sw_reads = r.sw_reads
    /\ swton = r.swton
    /\ start = r.start
    /\ stamp = r.stamp

(* VehicleState of the spec, read off the two flags of the sketch. *)
VehicleState(s) ==
    IF s.color_change THEN "Stopped"
    ELSE IF s.run_car THEN "Running"
    ELSE "Idle"

(* A local of setup() that holds nothing (before it is set, after setup() returns). *)
NoVolt == [num |-> 0, den |-> 1]

(* The globals as constructed (lines 35-62); statics without an initialiser are 0. *)
InitState ==
    [pc |-> "boot", base_light |-> 1023, sum |-> 0, i |-> 0,
     value |-> 0, vbat |-> NoVolt, vpem |-> NoVolt,
     run_car |-> FALSE, color_change |-> FALSE,
     run_time |-> 0, update_time |-> 0, light_value |-> 0,
     servo1 |-> [attached |-> FALSE, pin |-> 0, value |-> 90],
     servo2 |-> [attached |-> FALSE, pin |-> 0, value |-> 90],
     stirvo |-> [attached |-> FALSE, pin |-> 0, value |-> 90],
     pin |-> [p \in OutPins |-> LOW], now |-> 0,
     ops |-> <<>>, log |-> <<>>, sw_reads |-> <<>>, swton |-> <<>>,
     start |-> "Idle", stamp |-> 0]

(* ---------------------------------------------------------------------- *)
(* Library calls                                                          *)
(* ---------------------------------------------------------------------- *)
Ev(o, d, v) == [op |-> o, dev |-> d, val |-> v]

Trace(s, o, d, v) == [s EXCEPT !.ops = Append(@, Ev(o, d, v))]

(* digitalWrite(p, v) *)
digitalWrite(s, p, v) ==
    Trace([s EXCEPT !.pin[p] = v], "digitalWrite", p, v)

(* Servo::attached(), Servo::attach(pin), Servo::write(angle), Servo::detach();
   sv is the name of the Servo object. *)
attached(s, sv) == s[sv].attached

ServoDev(sv) ==
    CASE sv = "servo1" -> dp_serv1
      [] sv = "servo2" -> dp_serv2
      [] sv = "stirvo" -> dp_servs

attach(s, sv, p) ==
    Trace([s EXCEPT ![sv].attached = TRUE, ![sv].pin = p], "attach", ServoDev(sv), p)

write(s, sv, angle) ==
    Trace([s EXCEPT ![sv].value = angle], "write", ServoDev(sv), angle)

detach(s, sv) ==
    Trace([s EXCEPT ![sv].attached = FALSE], "detach", ServoDev(sv), 0)

(* delay(ms): the clock is ms later. *)
delay(s, ms) == [s EXCEPT !.now = @ + ms]

(* millis() after d more milliseconds have passed. *)
Tick(s, d) == [s EXCEPT !.now = @ + d]

(* debug(level, msg), lines 65-68: printed only at the configured level. *)
debug(s, level, msg) ==
    IF debug_level = level \/ debug_level = 4
    THEN [s EXCEPT !.log = Append(@, [level |-> level, text |-> msg.text, args |-> msg.args])]
    ELSE s

(* getSeconds(m), lines 71-73: m/1000.0 as whole seconds and thousandths. *)
getSeconds(m) == <<m \div 1000, m % 1000>>

(* ---------------------------------------------------------------------- *)
(* Arithmetic of the sketch                                               *)
(* ---------------------------------------------------------------------- *)
(* An accumulator of 8 bits instead of 16. *)
Int16_Int8(x) == ((x + 128) % 256) - 128

(* A 16-bit int (the accumulator of the calibration). *)
Int16(x) == ((x + 32768) % 65536) - 32768

RECURSIVE BitLen(_)
BitLen(n) == IF n = 0 THEN 0 ELSE 1 + BitLen(n \div 2)

RECURSIVE Pow2(_)
Pow2(n) == IF n = 0 THEN 1 ELSE 2 * Pow2(n - 1)

(* vdrop_frac = 0.8 as a 32-bit float is 13421773 * 2^-24; the mantissa is
   kept as VdropHi * 4096 + VdropLo so that every product fits 32 bits. *)
VdropHi == 3276
VdropLo == 3277

(* The threshold rounded to the nearest int instead of truncated. *)
Threshold_Round(b) ==
    LET low  == b * VdropLo
        hi   == b * VdropHi + low \div 4096
        lo   == low % 4096
        bits == BitLen(hi)
        sh   == IF bits > 12 THEN bits - 12 ELSE 0
        unit == Pow2(sh)
        rem  == lo % unit
        odd  == (lo \div unit) % 2 = 1
        up   == sh > 0 /\ (2 * rem > unit \/ (2 * rem = unit /\ odd))
        lo2  == lo - rem + (IF up THEN unit ELSE 0)
    IN  (hi + lo2 \div 4096 + 2048) \div 4096

(* int(vdrop_frac*base_light), lines 195 and 198: the float product of
   vdrop_frac and base_light, rounded to a 24-bit mantissa (to nearest, ties
   to even), then truncated to an int.  The exact product is
   (hi * 4096 + lo) * 2^-24. *)
Threshold(b) ==
    LET low  == b * VdropLo
        hi   == b * VdropHi + low \div 4096
        lo   == low % 4096
        bits == BitLen(hi)
        sh   == IF bits > 12 THEN bits - 12 ELSE 0
        unit == Pow2(sh)
        rem  == lo % unit
        odd  == (lo \div unit) % 2 = 1
        up   == sh > 0 /\ (2 * rem > unit \/ (2 * rem = unit /\ odd))
        lo2  == lo - rem + (IF up THEN unit ELSE 0)
    IN  (hi + lo2 \div 4096) \div 4096

(* analogToV(v), lines 75-77: ((v/1023)*5.0)/div_const with div_const =
   4.7/(10+4.7), as the exact fraction num/den.  The float rounding error
   (below 1e-5 V) is smaller than the distance of any converted sample from
   either threshold (above 0.01 V), so the comparisons below come out as in
   float arithmetic. *)
analogToV(v) == [num |-> v * 5 * 147, den |-> 1023 * 47]

vbat_ok == [num |-> 11, den |-> 2]
vpem_ok == [num |-> 7, den |-> 1]

(* a < b for two fractions with positive denominators. *)
Less(a, b) == a.num * b.den < b.num * a.den

(* ---------------------------------------------------------------------- *)
(* Actuation                                                              *)
(* ---------------------------------------------------------------------- *)
(* attachAndWrite() attaching without asking attached() first. *)
attachAndWrite_Reattach(s) ==
    LET s0 == Trace(s, "attachAndWrite", 0, 0)
        s1 == digitalWrite(s0, dp_regon, HIGH)
        s2 == attach(s1, "servo1", dp_serv1)
        s3 == attach(s2, "servo2", dp_serv2)
        s4 == write(s3, "servo1", 180)
    IN  write(s4, "servo2", 0)

(* attachAndWrite(), lines 80-92. *)
attachAndWrite(s) ==
    LET s0 == Trace(s, "attachAndWrite", 0, 0)
        s1 == digitalWrite(s0, dp_regon, HIGH)
        s2 == IF ~attached(s1, "servo1") THEN attach(s1, "servo1", dp_serv1) ELSE s1
        s3 == IF ~attached(s2, "servo2") THEN attach(s2, "servo2", dp_serv2) ELSE s2
        s4 == write(s3, "servo1", 180)
    IN  write(s4, "servo2", 0)

(* detachAndWrite() leaving the converter on. *)
detachAndWrite_RailOn(s) ==
    LET s0 == Trace(s, "detachAndWrite", 0, 0)
        s1 == write(s0, "servo1", 90)
        s2 == write(s1, "servo2", 90)
        s3 == detach(s2, "servo1")
    IN  detach(s3, "servo2")

(* detachAndWrite() releasing the servos before commanding neutral. *)
detachAndWrite_DetachFirst(s) ==
    LET s0 == Trace(s, "detachAndWrite", 0, 0)
        s1 == detach(s0, "servo1")
        s2 == detach(s1, "servo2")
        s3 == write(s2, "servo1", 90)
        s4 == write(s3, "servo2", 90)
    IN  digitalWrite(s4, dp_regon, LOW)

(* detachAndWrite(), lines 95-104. *)
detachAndWrite(s) ==
    LET s0 == Trace(s, "detachAndWrite", 0, 0)
        s1 == write(s0, "servo1", 90)
        s2 == write(s1, "servo2", 90)
        s3 == detach(s2, "servo1")
        s4 == detach(s3, "servo2")
    IN  digitalWrite(s4, dp_regon, LOW)

(* ---------------------------------------------------------------------- *)
(* setup()                                                                *)
(* ---------------------------------------------------------------------- *)
(* Lines 107-128: pin modes, converter off, spectrophotometer on, sum = 0. *)
SetupBegin(s) ==
    LET s1 == digitalWrite(s, dp_regon, LOW)
        s2 == digitalWrite(s1, dp_spect, HIGH)
    IN  [s2 EXCEPT !.sum = 0, !.i = 0, !.pc = "calibrate"]

(* Lines 129-134: one iteration of the calibration loop reading v. *)
SetupSample(s, v) ==
    LET s1 == [s EXCEPT !.value = v, !.sum = Int16(@ + v)]
        s2 == debug(s1, 4, [text |-> "Read for light level", args |-> <<v>>])
        s3 == delay(s2, 50)
    IN  [s3 EXCEPT !.i = @ + 1]

(* One blink of the ready signal, lines 147-152. *)
Flash(s) ==
    LET s1 == digitalWrite(s, dp_batok, LOW)
        s2 == digitalWrite(s1, dp_pemok, LOW)
        s3 == delay(s2, 150)
        s4 == digitalWrite(s3, dp_batok, HIGH)
        s5 == digitalWrite(s4, dp_pemok, HIGH)
    IN  delay(s5, 350)

(* The two voltage checks with the thresholds of the two rails exchanged. *)
CheckVoltages_Swapped(s) ==
    LET s1 == IF Less(s.vbat, vpem_ok)
              THEN debug(digitalWrite(s, dp_batok, LOW), 2,
                         [text |-> "Low battery voltage", args |-> <<s.vbat>>])
              ELSE s
    IN  IF Less(s.vpem, vbat_ok)
        THEN debug(digitalWrite(s1, dp_pemok, LOW), 2,
                   [text |-> "Low fuel cell voltage", args |-> <<s.vpem>>])
        ELSE s1

(* Lines 165-173: the two voltage checks on vbat and vpem. *)
CheckVoltages(s) ==
    LET s1 == IF Less(s.vbat, vbat_ok)
              THEN debug(digitalWrite(s, dp_batok, LOW), 2,
                         [text |-> "Low battery voltage", args |-> <<s.vbat>>])
              ELSE s
    IN  IF Less(s.vpem, vpem_ok)
        THEN debug(digitalWrite(s1, dp_pemok, LOW), 2,
                   [text |-> "Low fuel cell voltage", args |-> <<s.vpem>>])
        ELSE s1

(* Lines 136-163: baseline, stirring, ready signal, and the two voltages
   converted from the raw samples rbat and rpem. *)
SetupRest(s, rbat, rpem) ==
    LET s1 == [s EXCEPT !.base_light = s.sum \div setup_samples]
        s2 == debug(s1, 1, [text |-> "Baseline light level", args |-> <<s1.base_light>>])
        s3 == attach(s2, "stirvo", dp_servs)
        s4 == write(s3, "stirvo", (stir_speed - 9) * (-10))
        s5 == Flash(Flash(Flash(Flash(s4))))
        s6 == delay(s5, 500)
    IN  [s6 EXCEPT !.vbat = analogToV(rbat), !.vpem = analogToV(rpem), !.pc = "check"]

(* Lines 165-175: the voltage checks and the return of setup(); its locals
   sum, i, value, vbat and vpem are gone when it returns. *)
SetupCheck(s) ==
    [CheckVoltages(s) EXCEPT !.pc = "loop", !.sum = 0, !.i = 0, !.value = 0,
                             !.vbat = NoVolt, !.vpem = NoVolt]

(* ---------------------------------------------------------------------- *)
(* loop()                                                                 *)
(* ---------------------------------------------------------------------- *)
(* digitalRead(dp_swton) returning v. *)
digitalRead(s, v) == [s EXCEPT !.sw_reads = Append(@, v)]

(* Lines 180-183: the start branch; millis() is d later than the last reading. *)
StartRun(s, d) ==
    LET s1 == [s EXCEPT !.run_car = TRUE]
        s2 == attachAndWrite(s1)
        s3 == Tick(s2, d)
        s4 == [s3 EXCEPT !.run_time = s3.now, !.stamp = s3.now]
    IN  debug(s4, 3, [text |-> "Starting run at T=", args |-> <<getSeconds(s4.run_time)>>])

(* The switch-off branch leaving run_car set. *)
SwitchOff_KeepsRunning(s) ==
    LET s1 == [s EXCEPT !.run_time = 0]
        s2 == IF s1.run_car THEN debug(s1, 3, [text |-> "Run Aborted", args |-> <<>>]) ELSE s1
    IN  detachAndWrite(s2)

(* The switch-off branch disengaging only a running car. *)
SwitchOff_OnlyRunning(s) ==
    LET s1 == [s EXCEPT !.run_time = 0]
        s2 == IF s1.run_car THEN debug(s1, 3, [text |-> "Run Aborted", args |-> <<>>]) ELSE s1
        s3 == [s2 EXCEPT !.run_car = FALSE]
    IN  IF s.run_car THEN detachAndWrite(s3) ELSE s3

(* The switch-off branch printing "Run Aborted" whatever run_car is. *)
SwitchOff_AlwaysAborted(s) ==
    LET s1 == [s EXCEPT !.run_time = 0]
        s2 == debug(s1, 3, [text |-> "Run Aborted", args |-> <<>>])
        s3 == [s2 EXCEPT !.run_car = FALSE]
    IN  detachAndWrite(s3)

(* Lines 185-188: the switch-off branch. *)
SwitchOff(s) ==
    LET s1 == [s EXCEPT !.run_time = 0]
        s2 == IF s1.run_car THEN debug(s1, 3, [text |-> "Run Aborted", args |-> <<>>]) ELSE s1
        s3 == [s2 EXCEPT !.run_car = FALSE]
    IN  detachAndWrite(s3)

(* Start switch handling whose else-if does not test color_change. *)
StartSwitch_StopAsserts(s, sw1, sw2, d) ==
    IF ~s.run_car /\ ~s.color_change
    THEN LET r1 == digitalRead(s, sw1)
         IN  IF sw1 = HIGH
             THEN StartRun(r1, d)
             ELSE LET r2 == digitalRead(r1, sw2)
                  IN  IF sw2 = LOW THEN SwitchOff(r2) ELSE r2
    ELSE LET r2 == digitalRead(s, sw2)
         IN  IF sw2 = LOW THEN SwitchOff(r2) ELSE r2

(* Start switch handling whose first condition does not test run_car. *)
StartSwitch_NoRunGuard(s, sw1, sw2, d) ==
    IF ~s.color_change
    THEN LET r1 == digitalRead(s, sw1)
         IN  IF sw1 = HIGH
             THEN StartRun(r1, d)
             ELSE LET r2 == digitalRead(r1, sw2)
                  IN  IF sw2 = LOW THEN SwitchOff(r2) ELSE r2
    ELSE s

(* Start switch handling whose first condition does not test color_change. *)
StartSwitch_NoLatch(s, sw1, sw2, d) ==
    IF ~s.run_car
    THEN LET r1 == digitalRead(s, sw1)
         IN  IF sw1 = HIGH
             THEN StartRun(r1, d)
             ELSE IF ~s.color_change
                  THEN LET r2 == digitalRead(r1, sw2)
                       IN  IF sw2 = LOW THEN SwitchOff(r2) ELSE r2
                  ELSE r1
    ELSE IF ~s.color_change
         THEN LET r2 == digitalRead(s, sw2)
              IN  IF sw2 = LOW THEN SwitchOff(r2) ELSE r2
         ELSE s

(* Start switch handling whose switch-off branch clears color_change. *)
StartSwitch_Rearm(s, sw1, sw2, d) ==
    IF ~s.run_car /\ ~s.color_change
    THEN LET r1 == digitalRead(s, sw1)
         IN  IF sw1 = HIGH
             THEN StartRun(r1, d)
             ELSE LET r2 == digitalRead(r1, sw2)
                  IN  IF sw2 = LOW THEN SwitchOff(r2) ELSE r2
    ELSE LET r2 == digitalRead(s, sw2)
         IN  IF sw2 = LOW
             THEN SwitchOff([r2 EXCEPT !.color_change = FALSE])
             ELSE r2

(* Start switch handling that starts only while the battery indicator is high. *)
StartSwitch_NeedsBattery(s, sw1, sw2, d) ==
    IF ~s.run_car /\ ~s.color_change
    THEN LET r1 == digitalRead(s, sw1)
         IN  IF sw1 = HIGH
             THEN IF s.pin[dp_batok] = HIGH THEN StartRun(r1, d) ELSE r1
             ELSE LET r2 == digitalRead(r1, sw2)
                  IN  IF sw2 = LOW THEN SwitchOff(r2) ELSE r2
    ELSE IF ~s.color_change
         THEN LET r2 == digitalRead(s, sw2)
              IN  IF sw2 = LOW THEN SwitchOff(r2) ELSE r2
         ELSE s

(* Lines 179-189: start switch handling.  The switch is read where the
   short-circuit conditions reach digitalRead: sw1 is the level of the line
   at the first condition, sw2 its level at the else-if. *)
StartSwitch(s, sw1, sw2, d) ==
    IF ~s.run_car /\ ~s.color_change
    THEN LET r1 == digitalRead(s, sw1)
         IN  IF sw1 = HIGH
             THEN StartRun(r1, d)
             ELSE LET r2 == digitalRead(r1, sw2)
                  IN  IF sw2 = LOW THEN SwitchOff(r2) ELSE r2
    ELSE IF ~s.color_change
         THEN LET r2 == digitalRead(s, sw2)
              IN  IF sw2 = LOW THEN SwitchOff(r2) ELSE r2
         ELSE s

(* The light sample stored in base_light instead of light_value. *)
LightSample_Rebase(s, light, d2, d3) ==
    LET s1 == [s EXCEPT !.light_value = light, !.base_light = light]
        s2 == Tick(s1, d2)
    IN  IF s2.now - s2.update_time > update_rate
        THEN LET s3 == Tick(s2, d3)
                 s4 == [s3 EXCEPT !.update_time = s3.now]
             IN  debug(s4, 1, [text |-> "Light level", args |-> <<light, Threshold(s4.base_light)>>])
        ELSE s2

(* The light sample storing the time of the message in run_time. *)
LightSample_RunTime(s, light, d2, d3) ==
    LET s1 == [s EXCEPT !.light_value = light]
        s2 == Tick(s1, d2)
    IN  IF s2.now - s2.update_time > update_rate
        THEN LET s3 == Tick(s2, d3)
                 s4 == [s3 EXCEPT !.run_time = s3.now]
             IN  debug(s4, 1, [text |-> "Light level", args |-> <<light, Threshold(s4.base_light)>>])
        ELSE s2

(* Lines 191-196: the light sample and the periodic light-level message. *)
LightSample(s, light, d2, d3) ==
    LET s1 == [s EXCEPT !.light_value = light]
        s2 == Tick(s1, d2)
    IN  IF s2.now - s2.update_time > update_rate
        THEN LET s3 == Tick(s2, d3)
                 s4 == [s3 EXCEPT !.update_time = s3.now]
             IN  debug(s4, 1, [text |-> "Light level", args |-> <<light, Threshold(s4.base_light)>>])
        ELSE s2

(* Endpoint detection comparing with <= instead of <. *)
Endpoint_Le(s, d) ==
    IF s.run_car /\ s.light_value <= Threshold(s.base_light)
    THEN LET s1 == [s EXCEPT !.run_car = FALSE, !.color_change = TRUE]
             s2 == detachAndWrite(s1)
             s3 == Tick(s2, d)
             cur_time == s3.now
             s4 == debug(s3, 3, [text |-> "Ending run at T=",
                                 args |-> <<getSeconds(cur_time),
                                            getSeconds(cur_time - s3.run_time)>>])
         IN  [s4 EXCEPT !.run_time = 0]
    ELSE s

(* Lines 198-207: endpoint detection. *)
Endpoint(s, d) ==
    IF s.run_car /\ s.light_value < Threshold(s.base_light)
    THEN LET s1 == [s EXCEPT !.run_car = FALSE, !.color_change = TRUE]
             s2 == detachAndWrite(s1)
             s3 == Tick(s2, d)
             cur_time == s3.now
             s4 == debug(s3, 3, [text |-> "Ending run at T=",
                                 args |-> <<getSeconds(cur_time),
                                            getSeconds(cur_time - s3.run_time)>>])
         IN  [s4 EXCEPT !.run_time = 0]
    ELSE s

(* What is recorded when a handler is entered. *)
Enter(s, sw1, sw2) ==
    [s EXCEPT !.ops = <<>>, !.log = <<>>, !.sw_reads = <<>>,
              !.swton = <<sw1, sw2>>, !.start = VehicleState(s)]

(* One cycle of loop() with the endpoint detection ahead of the start
   switch handling. *)
loop_EndpointFirst(s, in) ==
    StartSwitch(Endpoint(LightSample(Enter(s, in.sw1, in.sw2), in.light, in.d2, in.d3),
                         in.d4),
                in.sw1, in.sw2, in.d1)

(* One cycle of loop() with the endpoint detection inside the periodic
   light-level branch of line 192. *)
loop_EndpointInUpdate(s, in) ==
    \* the endpoint is looked at only when the light-level message is due
    LET a == StartSwitch(Enter(s, in.sw1, in.sw2), in.sw1, in.sw2, in.d1)
        b == LightSample(a, in.light, in.d2, in.d3)
    IN  IF (a.now + in.d2) - a.update_time > update_rate
        THEN Endpoint(b, in.d4)
        ELSE b

(* One cycle of loop(), lines 177-208, on the inputs in. *)
loop(s, in) ==
    Endpoint(LightSample(StartSwitch(Enter(s, in.sw1, in.sw2), in.sw1, in.sw2, in.d1),
                         in.light, in.d2, in.d3),
             in.d4)

Inputs ==
    [sw1 : Levels, sw2 : Levels, light : LightValues,
     d1 : TimeSteps, d2 : TimeSteps, d3 : TimeSteps, d4 : TimeSteps]

(* ---------------------------------------------------------------------- *)
(* The program                                                            *)
(* ---------------------------------------------------------------------- *)
Init ==
    /\ Assign_0(InitState)
    /\ twin = InitState
    /\ hist = <<>>

Begin ==
    /\ pc = "boot"
    /\ Assign(SetupBegin(Self))
    /\ UNCHANGED <<twin, hist>>

Sample ==
    /\ pc = "calibrate"
    /\ i < setup_samples
    /\ \E v \in SampleValues : Assign(SetupSample(Self, v))
    /\ UNCHANGED <<twin, hist>>

Ready ==
    /\ pc = "calibrate"
    /\ ~(i < setup_samples)
    /\ \E rbat \in VoltValues, rpem \in VoltValues : Assign(SetupRest(Self, rbat, rpem))
    /\ UNCHANGED <<twin, hist>>

Check ==
    /\ pc = "check"
    /\ Assign(SetupCheck(Self))
    /\ UNCHANGED <<twin, hist>>

Cycle ==
    /\ pc = "loop"
    /\ \E in \in Inputs :
          \E r \in {loop(Self, in)} : r.now <= MaxTime /\ Assign(r)
    /\ UNCHANGED <<twin, hist>>

Next == Begin \/ Sample \/ Ready \/ Check \/ Cycle

Spec == Init /\ [][Next]_vars

(* ---------------------------------------------------------------------- *)
(* The example run of the specification: the program fed the input stream *)
(* switch = off,on,on,on and light = 1000,1000,1000,750, with one entry   *)
(* of hist per cycle.                                                     *)
(* ---------------------------------------------------------------------- *)
ExampleSwitch == <<LOW, HIGH, HIGH, HIGH>>
ExampleLight == <<1000, 1000, 1000, 750>>

ExampleCycle ==
    /\ pc = "loop"
    /\ Len(hist) < Len(ExampleSwitch)
    /\ \E in \in Inputs :
          /\ in.sw1 = ExampleSwitch[Len(hist) + 1]
          /\ in.sw2 = ExampleSwitch[Len(hist) + 1]
          /\ in.light = ExampleLight[Len(hist) + 1]
          /\ \E r \in {loop(Self, in)} :
                /\ r.now <= MaxTime
                /\ Assign(r)
                /\ hist' = Append(hist, [state |-> VehicleState(r),
                                         engage |-> Cardinality({p \in 1..Len(r.ops) : r.ops[p].op = "attachAndWrite"}),
                                         disengage |-> Cardinality({p \in 1..Len(r.ops) : r.ops[p].op = "detachAndWrite"})])
    /\ UNCHANGED twin

NextExample == Begin \/ Sample \/ Ready \/ Check \/ ExampleCycle

SpecExample == Init /\ [][NextExample]_vars

(* ---------------------------------------------------------------------- *)
(* The actuation interface driven directly: attachAndWrite() and          *)
(* detachAndWrite() called in any order on the servos as constructed; ops *)
(* is the trace of all calls.                                             *)
(* ---------------------------------------------------------------------- *)
MaxCalls == 6

NumCalls == Cardinality({p \in 1..Len(ops) : ops[p].op \in {"attachAndWrite", "detachAndWrite"}})

CallAttach ==
    /\ pc = "boot"
    /\ NumCalls < MaxCalls
    /\ Assign(attachAndWrite(Self))
    /\ UNCHANGED <<twin, hist>>

CallDetach ==
    /\ pc = "boot"
    /\ NumCalls < MaxCalls
    /\ Assign(detachAndWrite(Self))
    /\ UNCHANGED <<twin, hist>>

NextActuation == CallAttach \/ CallDetach

SpecActuation == Init /\ [][NextActuation]_vars

(* ---------------------------------------------------------------------- *)
(* Two executions side by side: the same calibration samples, the same    *)
(* switch, light and clock inputs, but independent voltage samples.  The  *)
(* clock advances only at the millis() call of line 192 here.             *)
(* ---------------------------------------------------------------------- *)
PairInputs == {in \in Inputs : in.d1 = 0 /\ in.d3 = 0 /\ in.d4 = 0}

PairBegin ==
    /\ pc = "boot"
    /\ Assign(SetupBegin(Self))
    /\ twin' = SetupBegin(twin)
    /\ UNCHANGED hist

PairSample ==
    /\ pc = "calibrate"
    /\ i < setup_samples
    /\ \E v \in SampleValues :
          Assign(SetupSample(Self, v)) /\ twin' = SetupSample(twin, v)
    /\ UNCHANGED hist

PairReady ==
    /\ pc = "calibrate"
    /\ ~(i < setup_samples)
    /\ \E rbat \in VoltValues, rpem \in VoltValues, tbat \in VoltValues, tpem \in VoltValues :
          Assign(SetupRest(Self, rbat, rpem)) /\ twin' = SetupRest(twin, tbat, tpem)
    /\ UNCHANGED hist

PairCheck ==
    /\ pc = "check"
    /\ Assign(SetupCheck(Self))
    /\ twin' = SetupCheck(twin)
    /\ UNCHANGED hist

PairCycle ==
    /\ pc = "loop"
    /\ \E in \in PairInputs :
          \E r \in {loop(Self, in)} :
             r.now <= MaxTime /\ Assign(r) /\ twin' = loop(twin, in)
    /\ UNCHANGED hist

NextPair == PairBegin \/ PairSample \/ PairReady \/ PairCheck \/ PairCycle

SpecPair == Init /\ [][NextPair]_vars

(* ---------------------------------------------------------------------- *)
(* Two executions side by side: the same calibration and voltage samples  *)
(* and the same switch and light inputs, but independent clocks: in every *)
(* cycle each execution has its own step of millis(), taken at the call   *)
(* of line 192.                                                           *)
(* ---------------------------------------------------------------------- *)
ClockInputs == {in \in Inputs : in.d1 = 0 /\ in.d3 = 0 /\ in.d4 = 0}

ClockReady ==
    /\ pc = "calibrate"
    /\ ~(i < setup_samples)
    /\ \E rbat \in VoltValues, rpem \in VoltValues :
          Assign(SetupRest(Self, rbat, rpem)) /\ twin' = SetupRest(twin, rbat, rpem)
    /\ UNCHANGED hist

ClockCycle ==
    /\ pc = "loop"
    /\ \E in \in ClockInputs, e \in TimeSteps :
          \E r \in {loop(Self, in)},
             t \in {loop(twin, [in EXCEPT !.d2 = e])} :
             r.now <= MaxTime /\ t.now <= MaxTime /\ Assign(r) /\ twin' = t
    /\ UNCHANGED hist

NextClock == PairBegin \/ PairSample \/ ClockReady \/ PairCheck \/ ClockCycle

SpecClock == Init /\ [][NextClock]_vars

(* ---------------------------------------------------------------------- *)
(* The program with hist holding the names of all engage()/disengage()    *)
(* calls of the execution, in order, up to MaxHist calls.  The clock      *)
(* advances only at the millis() call of line 192 here.                   *)
(* ---------------------------------------------------------------------- *)
MaxHist == 5

CallNames(seq) ==
    LET calls == SelectSeq(seq, LAMBDA e : e.op \in {"attachAndWrite", "detachAndWrite"})
    IN  [k \in 1..Len(calls) |-> calls[k].op]

CallsCycle ==
    /\ pc = "loop"
    /\ \E in \in PairInputs :
          \E r \in {loop(Self, in)} :
             /\ r.now <= MaxTime
             /\ Len(hist) + Len(CallNames(r.ops)) <= MaxHist
             /\ Assign(r)
             /\ hist' = hist \o CallNames(r.ops)
    /\ UNCHANGED twin

NextCalls == Begin \/ Sample \/ Ready \/ Check \/ CallsCycle

SpecCalls == Init /\ [][NextCalls]_vars

(* ---------------------------------------------------------------------- *)
(* Every baseline: the calibration reads one value ten times, the rails   *)
(* are healthy, and the car is driven with the switch on and light values *)
(* one below and one above four fifths of the baseline.                   *)
(* ---------------------------------------------------------------------- *)
EndpointSample ==
    /\ pc = "calibrate"
    /\ i < setup_samples
    /\ \E v \in 0..MaxAnalog :
          /\ i = 0 \/ v = value
          /\ Assign(SetupSample(Self, v))
    /\ UNCHANGED <<twin, hist>>

EndpointReady ==
    /\ pc = "calibrate"
    /\ ~(i < setup_samples)
    /\ Assign(SetupRest(Self, MaxAnalog, MaxAnalog))
    /\ UNCHANGED <<twin, hist>>

(* The inputs of a cycle with the switch on, the light at L and no time passing. *)
SwitchOnAt(L) ==
    [sw1 |-> HIGH, sw2 |-> HIGH, light |-> L, d1 |-> 0, d2 |-> 0, d3 |-> 0, d4 |-> 0]

EndpointLights ==
    {(4 * base_light) \div 5 - 1, (4 * base_light) \div 5 + 1} \cap (0..MaxAnalog)

EndpointCycle ==
    /\ pc = "loop"
    /\ \E L \in EndpointLights : Assign(loop(Self, SwitchOnAt(L)))
    /\ UNCHANGED <<twin, hist>>

NextEndpoint == Begin \/ EndpointSample \/ EndpointReady \/ Check \/ EndpointCycle

SpecEndpoint == Init /\ [][NextEndpoint]_vars

(* ---------------------------------------------------------------------- *)
(* Reading the record of the last cycle                                   *)
(* ---------------------------------------------------------------------- *)
(* Number of events of seq whose op is o. *)
Count(seq, o) == Cardinality({p \in 1..Len(seq) : seq[p].op = o})

(* engage() and disengage() calls of the last cycle. *)
Engaged == Count(ops, "attachAndWrite")
Disengaged == Count(ops, "detachAndWrite")

(* Number of diagnostics of the last cycle with the text txt. *)
Printed(txt) == Cardinality({p \in 1..Len(log) : log[p].text = txt})

(* A cycle of loop() has run and started in the state st. *)
CycleFrom(st) == pc = "loop" /\ swton # <<>> /\ start = st

(* ---------------------------------------------------------------------- *)
(* Claims                                                                 *)
(* ---------------------------------------------------------------------- *)

(* C1: latching.  Once the state is Stopped (color_change set), no later
   cycle of loop() invokes engage() (attachAndWrite), whatever the switch
   and light inputs are. *)
C1_Latching == [][color_change => Count(ops', "attachAndWrite") = 0]_vars

(* C1 witness: a cycle that started in Stopped while the switch line went
   from off to on, and did not engage. *)
C1_Witness ==
    CycleFrom("Stopped") /\ swton = <<LOW, HIGH>> /\ Engaged = 0

(* C2: Stopped is terminal.  A step from a state with color_change set ends
   with color_change set and run_car clear: no transition leads from
   Stopped to Idle or Running. *)
C2_StoppedTerminal == [][color_change => (color_change' /\ ~run_car')]_vars

(* C2 witness: a cycle that started in Stopped with the switch off and the
   light back at a high level, and ended in Stopped. *)
C2_Witness ==
    /\ CycleFrom("Stopped") /\ swton = <<LOW, LOW>> /\ light_value = 1000
    /\ VehicleState(Self) = "Stopped"

(* C5: abort.  A cycle that starts in Running and reads the switch off calls
   disengage() exactly once, ends in Idle and prints "Run Aborted" exactly
   once; a cycle that does not start in Running never prints it. *)
C5_Abort ==
    /\ (CycleFrom("Running") /\ sw_reads = <<LOW>>)
          => (Disengaged = 1 /\ VehicleState(Self) = "Idle" /\ Printed("Run Aborted") = 1)
    /\ (pc = "loop" /\ start # "Running") => Printed("Run Aborted") = 0

(* C5 witness: an aborted run. *)
C5_Witness ==
    /\ CycleFrom("Running") /\ sw_reads = <<LOW>>
    /\ Printed("Run Aborted") = 1 /\ VehicleState(Self) = "Idle"

(* C7: start.  A cycle that starts in Idle, reads the switch on and reads a
   light value at or above the threshold (0.8 x base_light, truncated) calls
   engage() exactly once, does not call disengage(), and ends in Running. *)
C7_Start ==
    (CycleFrom("Idle") /\ sw_reads = <<HIGH>> /\ light_value >= (4 * base_light) \div 5)
       => (Engaged = 1 /\ Disengaged = 0 /\ VehicleState(Self) = "Running")

(* C7 witness: a start with the light exactly at the threshold. *)
C7_Witness ==
    /\ CycleFrom("Idle") /\ sw_reads = <<HIGH>> /\ 5 * light_value = 4 * base_light
    /\ Engaged = 1 /\ VehicleState(Self) = "Running"

(* C6: endpoint stop.  A cycle that starts in Running, reads the switch on
   and reads a light value below the threshold int(vdrop_frac*base_light)
   moves to Stopped, calls disengage() exactly once and engage() not at all,
   and prints one "Ending run" diagnostic whose run time is the timestamp
   read in that cycle minus the timestamp captured by the last
   Idle->Running transition. *)
C6_EndpointStop ==
    (CycleFrom("Running") /\ sw_reads = <<HIGH>> /\ light_value < Threshold(base_light))
       => /\ VehicleState(Self) = "Stopped"
          /\ Disengaged = 1 /\ Engaged = 0
          /\ log = << [level |-> 3, text |-> "Ending run at T=",
                       args |-> <<getSeconds(now), getSeconds(now - stamp)>>] >>

(* C6 witness: an endpoint stop some time after the start, after the
   periodic light-level message has been due. *)
C6_Witness ==
    /\ CycleFrom("Running") /\ sw_reads = <<HIGH>> /\ light_value < Threshold(base_light)
    /\ VehicleState(Self) = "Stopped" /\ now - stamp >= TimeStep /\ update_time > 0
    /\ Len(log) = 1

(* The events of seq from the call at position p up to the next call. *)
IsCall(e) == e.op \in {"attachAndWrite", "detachAndWrite"}
CallEnd(seq, p) ==
    LET later == {q \in (p + 1)..Len(seq) : IsCall(seq[q])}
    IN  IF later = {} THEN Len(seq)
        ELSE CHOOSE q \in later : \A q2 \in later : q <= q2
Body(seq, p) == (p + 1)..(IF CallEnd(seq, p) = Len(seq) /\ ~IsCall(seq[Len(seq)])
                           THEN Len(seq) ELSE CallEnd(seq, p) - 1)

Drives == {dp_serv1, dp_serv2}

(* C9: disengage() ordering.  In every call of detachAndWrite() each drive
   servo is commanded to 90 before either is detached, both are detached,
   and the drive-power rail is switched off only after both are detached. *)
C9_DisengageOrder ==
    \A p \in 1..Len(ops) :
       ops[p].op = "detachAndWrite" =>
          LET B == Body(ops, p)
              neutral(d) == {q \in B : ops[q] = Ev("write", d, 90)}
              release == {q \in B : ops[q].op = "detach" /\ ops[q].dev \in Drives}
              railoff == {q \in B : ops[q] = Ev("digitalWrite", dp_regon, LOW)}
          IN  /\ \A d \in Drives : \E q \in B : ops[q] = Ev("detach", d, 0)
              /\ \A d \in Drives : \E w \in neutral(d) : \A q \in release : w < q
              /\ railoff # {}
              /\ \A q \in release, r \in railoff : q < r

(* C9 witness: a cycle that disengaged a running car. *)
C9_Witness ==
    CycleFrom("Running") /\ Disengaged = 1 /\ pin[dp_regon] = LOW

(* C3 as stated: with baseline 1000 the four cycles of the example end in
   Idle, Running, Running, Stopped, engage() is called once (cycle 2) and
   disengage() is called once (cycle 4). *)
C3_Example_AsStated ==
    (base_light = 1000 /\ Len(hist) = 4)
       => /\ [k \in 1..4 |-> hist[k].state] = <<"Idle", "Running", "Running", "Stopped">>
          /\ [k \in 1..4 |-> hist[k].engage] = <<0, 1, 0, 0>>
          /\ [k \in 1..4 |-> hist[k].disengage] = <<0, 0, 0, 1>>

(* C3 amended: with baseline 1000 the four cycles of the example end in
   Idle, Running, Running, Stopped, engage() is called once (cycle 2) and
   disengage() is called twice: in cycle 1, by the switch-off branch of an
   idle car, and in cycle 4. *)
C3_Example ==
    (base_light = 1000 /\ Len(hist) = 4)
       => /\ [k \in 1..4 |-> hist[k].state] = <<"Idle", "Running", "Running", "Stopped">>
          /\ [k \in 1..4 |-> hist[k].engage] = <<0, 1, 0, 0>>
          /\ [k \in 1..4 |-> hist[k].disengage] = <<1, 0, 0, 1>>

(* C3 witness: the example run to its fourth cycle on baseline 1000. *)
C3_Witness ==
    base_light = 1000 /\ Len(hist) = 4 /\ hist[4].state = "Stopped" /\ light_value = 750

(* The cycle of loop() run from the present state with the switch on and the light at L. *)
After(L) == loop(Self, SwitchOnAt(L))
Stops(r) ==
    /\ VehicleState(r) = "Stopped"
    /\ Cardinality({p \in 1..Len(r.ops) : r.ops[p].op = "detachAndWrite"}) = 1
Runs(r) == VehicleState(r) = "Running"

(* C4 as stated: from Running with the switch on, a cycle with
   5*light < 4*base_light ends in Stopped with disengage() called, and a
   cycle with 5*light >= 4*base_light does not stop the car. *)
C4_Endpoint_AsStated ==
    (pc = "loop" /\ VehicleState(Self) = "Running")
       => \A L \in 0..MaxAnalog :
             \E r \in {After(L)} :
                IF 5 * L < 4 * base_light THEN Stops(r) ELSE ~Stops(r)

(* C4 amended: for every baseline and light value in 0..1023, a cycle that
   starts in Running with the switch on ends in Stopped, with disengage()
   called, exactly when the light value is below 0.8 x base_light truncated
   to an integer, that is light < (4*base_light) div 5; otherwise the cycle
   ends in Running. *)
C4_Endpoint ==
    (pc = "loop" /\ VehicleState(Self) = "Running")
       => \A L \in 0..MaxAnalog :
             \E r \in {After(L)} :
                IF L < (4 * base_light) \div 5 THEN Stops(r) ELSE Runs(r)

(* C4 witness: a baseline that is no multiple of 5, a light value of
   exactly the truncated threshold that left the car running, and then a
   light value one below it that stopped the car. *)
C4_Witness ==
    /\ CycleFrom("Running") /\ base_light % 5 # 0
    /\ light_value = (4 * base_light) \div 5 - 1
    /\ VehicleState(Self) = "Stopped" /\ Disengaged = 1

(* The call that made the last event of seq: the op of the last call marker. *)
LastCall(seq) ==
    LET calls == {p \in 1..Len(seq) : IsCall(seq[p])}
    IN  IF calls = {} THEN "none"
        ELSE seq[CHOOSE p \in calls : \A q \in calls : q <= p].op

(* C8: engage() idempotence.  attach is never invoked on a servo that is
   attached; attachAndWrite() called on released servos attaches each drive
   servo once; and attachAndWrite() called right after attachAndWrite()
   attaches nothing and leaves the servos and the outputs as they were, so
   two calls in a row make one attach per servo. *)
C8_EngageIdempotent ==
    [][ LET new == SubSeq(ops', Len(ops) + 1, Len(ops'))
            arms(d) == Cardinality({p \in 1..Len(new) : new[p] = Ev("attach", d, d)})
        IN  (Len(ops') > Len(ops) /\ new[1].op = "attachAndWrite")
               => /\ servo1.attached => arms(dp_serv1) = 0
                  /\ servo2.attached => arms(dp_serv2) = 0
                  /\ (~servo1.attached /\ ~servo2.attached)
                        => (arms(dp_serv1) = 1 /\ arms(dp_serv2) = 1)
                  /\ LastCall(ops) = "attachAndWrite"
                        => /\ Count(new, "attach") = 0
                           /\ servo1' = servo1 /\ servo2' = servo2 /\ pin' = pin
                           /\ servo1.attached /\ servo2.attached
      ]_vars

(* C8 witness: attachAndWrite() called twice in a row on released servos. *)
C8_Witness ==
    /\ pc = "boot" /\ Len(ops) = 10
    /\ ops[1].op = "attachAndWrite" /\ ops[7].op = "attachAndWrite"
    /\ Count(ops, "attach") = 2
    /\ servo1.attached /\ servo2.attached

(* What the run state machine shows of an execution: its state, the
   engage()/disengage() calls of the last cycle, the drive servos and the
   drive-power rail. *)
Control(s) ==
    [state |-> VehicleState(s), run_car |-> s.run_car, color_change |-> s.color_change,
     calls |-> SelectSeq(s.ops, IsCall),
     servo1 |-> s.servo1, servo2 |-> s.servo2, regon |-> s.pin[dp_regon]]

Unhealthy(s) == s.pin[dp_batok] = LOW \/ s.pin[dp_pemok] = LOW

(* C10: health flags never influence the run state machine.  Two executions
   with the same switch and light inputs and different voltage samples are
   in the same state and have made the same engage()/disengage() calls
   after every step; and with a failed voltage check a switch-on in Idle
   still engages. *)
C10_HealthIndependent ==
    /\ Control(Self) = Control(twin)
    /\ (Unhealthy(Self) /\ CycleFrom("Idle") /\ sw_reads = <<HIGH>>) => Engaged = 1

(* C10 witness: one execution with both checks failed, the other with both
   passed, after a run that started and was then stopped by the endpoint. *)
C10_Witness ==
    /\ pin[dp_batok] = LOW /\ pin[dp_pemok] = LOW
    /\ twin.pin[dp_batok] = HIGH /\ twin.pin[dp_pemok] = HIGH
    /\ CycleFrom("Running") /\ VehicleState(Self) = "Stopped" /\ Disengaged = 1

(* C11: the run timer never influences control.  Two executions with the
   same calibration, switch and light inputs and different millis() values
   are in the same state, with the same drive servos and drive-power rail,
   and have made the same engage()/disengage() calls after every step. *)
C11_ClockIndependent ==
    /\ Control(Self) = Control(twin)
    /\ base_light = twin.base_light /\ light_value = twin.light_value

(* C11 witness: two executions whose clocks, run timers and diagnostics
   differ, after a run that the endpoint stopped. *)
C11_Witness ==
    /\ CycleFrom("Running") /\ VehicleState(Self) = "Stopped"
    /\ now # twin.now /\ update_time # twin.update_time /\ log # twin.log

(* C12: base_light is immutable after calibration.  No cycle of loop()
   changes base_light. *)
C12_BaselineImmutable == [][pc = "loop" => base_light' = base_light]_vars

(* C12 witness: a baseline of 1001 still in place after a run that started,
   printed its light level and was stopped by the endpoint. *)
C12_Witness ==
    /\ CycleFrom("Running") /\ VehicleState(Self) = "Stopped"
    /\ base_light = 1001 /\ update_time > 0 /\ light_value = 750

(* C13: calibration of identical samples.  When all setup_samples readings
   equal v (any v in 0..1023), the accumulator holds the exact sum after
   every reading, without overflow, and the baseline that setup() computes
   is exactly v. *)
C13_IdenticalSamples ==
    [][ /\ (pc = "calibrate" /\ pc' = "calibrate") => sum' = i' * value'
        /\ (pc = "calibrate" /\ pc' = "check")
              => (i = setup_samples /\ sum = setup_samples * value /\ base_light' = value)
      ]_vars

(* C13 witness: ten readings of 1023 and the baseline 1023. *)
C13_Witness ==
    /\ pc = "check" /\ value = MaxAnalog /\ i = setup_samples
    /\ sum = 10230 /\ base_light = MaxAnalog

(* C14: voltage check.  When setup() returns, the battery indicator is low
   iff vbat is strictly below 5.5 V and the fuel-cell indicator is low iff
   vpem is strictly below 7 V, and is high otherwise; loop() leaves both
   indicators as they are. *)
C14_VoltageCheck ==
    [][ /\ (pc = "check" /\ pc' = "loop")
              => /\ pin'[dp_batok] = (IF 2 * vbat.num < 11 * vbat.den THEN LOW ELSE HIGH)
                 /\ pin'[dp_pemok] = (IF vpem.num < 7 * vpem.den THEN LOW ELSE HIGH)
        /\ pc = "loop"
              => (pin'[dp_batok] = pin[dp_batok] /\ pin'[dp_pemok] = pin[dp_pemok])
      ]_vars

(* C14 witness: setup() has just returned with the battery indicator low and
   the fuel-cell indicator high. *)
C14_Witness ==
    /\ pc = "loop" /\ swton = <<>>
    /\ pin[dp_batok] = LOW /\ pin[dp_pemok] = HIGH
    /\ ops[Len(ops)] = Ev("digitalWrite", dp_batok, LOW)

(* The engage()/disengage() calls of the last cycle, in order. *)
Calls == [k \in 1..Len(SelectSeq(ops, IsCall)) |-> SelectSeq(ops, IsCall)[k].op]

(* A cycle that started in Idle, read the switch on and read a light value
   below the threshold. *)
StartBelowThreshold ==
    CycleFrom("Idle") /\ sw_reads = <<HIGH>> /\ light_value < Threshold(base_light)

(* C15 as stated: a cycle that starts in Idle, reads the switch on and reads
   a light value below the threshold engages and ends in Running (the
   endpoint rule acting only in the next cycle). *)
C15_SameCycle_AsStated ==
    StartBelowThreshold
       => (VehicleState(Self) = "Running" /\ Engaged = 1 /\ Disengaged = 0)

(* C15 amended: a cycle that starts in Idle, reads the switch on and reads a
   light value below the threshold engages and disengages in that same
   cycle, engage() first, and ends in Stopped with the drive released. *)
C15_SameCycle ==
    StartBelowThreshold
       => /\ VehicleState(Self) = "Stopped"
          /\ Calls = <<"attachAndWrite", "detachAndWrite">>
          /\ ~servo1.attached /\ ~servo2.attached /\ pin[dp_regon] = LOW

(* C15 witness: such a cycle, ended in Stopped. *)
C15_Witness ==
    StartBelowThreshold /\ VehicleState(Self) = "Stopped" /\ Len(log) = 2

(* C16: one switch sample per cycle.  Every cycle that starts in Idle
   invokes engage(), or else invokes disengage() (the switch-off rule); no
   Idle cycle skips both. *)
C16_OneSwitchSample ==
    CycleFrom("Idle") => (Engaged = 1 \/ (Engaged = 0 /\ Disengaged = 1))

(* C17: switch rules take precedence over the endpoint rule.  A cycle that
   starts in Running and reads the switch off and a light value below the
   threshold ends in Idle, not Stopped, with disengage() called exactly once
   and color_change clear; a following cycle with the switch on engages
   again. *)
C17_SwitchPrecedence ==
    (CycleFrom("Running") /\ sw_reads = <<LOW>> /\ light_value < Threshold(base_light))
       => /\ VehicleState(Self) = "Idle" /\ ~color_change
          /\ Calls = <<"detachAndWrite">>
          /\ \E r \in {loop(Self, SwitchOnAt(MaxAnalog))} :
                /\ VehicleState(r) = "Running"
                /\ Cardinality({p \in 1..Len(r.ops) : r.ops[p].op = "attachAndWrite"}) = 1

(* C17 witness: a run aborted in a cycle whose light value was below the
   threshold. *)
C17_Witness ==
    /\ CycleFrom("Running") /\ sw_reads = <<LOW>> /\ light_value = 750
    /\ VehicleState(Self) = "Idle" /\ Printed("Run Aborted") = 1

(* C18: drive power follows the state.  When setup() has returned and at the
   end of every cycle of loop(), the drive-power rail is high and both
   drive servos are attached if the state is Running, and the rail is low
   and both servos are detached if it is Idle or Stopped. *)
C18_DriveFollowsState ==
    pc = "loop"
       => IF VehicleState(Self) = "Running"
          THEN pin[dp_regon] = HIGH /\ servo1.attached /\ servo2.attached
          ELSE pin[dp_regon] = LOW /\ ~servo1.attached /\ ~servo2.attached

(* C18 witness: a car that was running and is stopped, rail low and servos
   detached. *)
C18_Witness ==
    /\ CycleFrom("Running") /\ VehicleState(Self) = "Stopped"
    /\ pin[dp_regon] = LOW /\ ~servo1.attached /\ ~servo2.attached
    /\ servo1.value = 90

(* C19: no actuation in Stopped.  A cycle that starts in Stopped makes no
   call on the hardware (neither engage() nor disengage()) and leaves the
   servos and every output as they were. *)
C19_NoActuationInStopped ==
    [][color_change =>
          /\ ops' = <<>>
          /\ servo1' = servo1 /\ servo2' = servo2 /\ stirvo' = stirvo /\ pin' = pin]_vars

(* C19 witness: a cycle that started in Stopped while the switch line went
   from on to off. *)
C19_Witness ==
    CycleFrom("Stopped") /\ swton = <<HIGH, LOW>> /\ ops = <<>> /\ pin[dp_regon] = LOW

(* C20: engage() and disengage() alternate.  In the sequence of all calls of
   an execution every engage() but the last is followed by a disengage();
   a cycle that starts in Running does not engage; no cycle engages twice;
   and a cycle that ends in Running without having started there engaged
   exactly once. *)
C20_Alternate ==
    /\ \A k \in 1..(Len(hist) - 1) :
          hist[k] = "attachAndWrite" => hist[k + 1] = "detachAndWrite"
    /\ pc = "loop" => Engaged <= 1
    /\ CycleFrom("Running") => Engaged = 0
    /\ (pc = "loop" /\ swton # <<>> /\ start # "Running" /\ VehicleState(Self) = "Running")
          => Engaged = 1

(* C20 witness: an execution that engaged twice. *)
C20_Witness ==
    /\ Cardinality({k \in 1..Len(hist) : hist[k] = "attachAndWrite"}) = 2
    /\ VehicleState(Self) = "Running"

====
